---- MODULE Spec2Model ----
(***************************************************************************)
(* Model of content/posts/2024/08/zig/code/sendData.py: the host side of   *)
(* a framed message transfer over a USB bulk endpoint pair.                *)
(*                                                                         *)
(* A str is a sequence of Unicode code points, a bytes object a sequence   *)
(* of integers 0..255.  The two endpoints (outep, inep) are the            *)
(* environment: a write either returns or raises, a read either raises or  *)
(* returns 0..64 bytes.  Every call made on an endpoint is recorded in the *)
(* history variable trace, everything the script prints in stdout.         *)
(***************************************************************************)
EXTENDS Integers, Sequences, FiniteSets, TLC

\* ---------------------------------------------------------------- bounds
\* Longest message (in characters) the model draws.
MaxMsgLen == 64

\* Largest value of x >> 24 the calls of toU32 on its own are made with:
\* x ranges up to (MaxHi + 1) * 2^24 - 1, beyond 2^32.
MaxHi == 300

\* Code points the messages are made of: one per UTF-8 width (1..4 bytes).
\* None is a surrogate, so str.encode() never raises on them.
Alphabet == {97, 233, 8364, 128512}

\* Byte values the device fills its responses with.
RespBytes == {65, 233}

\* ------------------------------------------------------ program constants
\* Size of a block: the literal of `min(strLen, i + 64)`.
BlockSize == 64
\* Argument of inep.read.
ReadSize == 64
\* Length of the hash the last block is answered with.
HashLen == 32

Min(a, b) == IF a < b THEN a ELSE b

\* -------------------------------------------------------------- the framer
\* Line 7: four bytes, least significant first, each taken modulo 256.
toU32(x) ==
    << x % 256, (x \div 256) % 256, (x \div 65536) % 256,
       (x \div 16777216) % 256 >>

\* Line 7 for an x of any size.  Python integers are unbounded; x is given
\* as lo + hi * 2^24 with 0 <= lo < 2^24, so that x >> 24 is hi and the
\* three low bytes of x are those of lo.
toU32_limbs_drop_mod(lo, hi) ==
    << lo % 256, (lo \div 256) % 256, (lo \div 65536) % 256, hi >>

toU32_limbs(lo, hi) ==
    << lo % 256, (lo \div 256) % 256, (lo \div 65536) % 256, hi % 256 >>

\* UTF-8 encoding of one code point, as str.encode() produces it.
Utf8(c) ==
    IF c < 128 THEN << c >>
    ELSE IF c < 2048 THEN << 192 + (c \div 64), 128 + (c % 64) >>
    ELSE IF c < 65536 THEN
        << 224 + (c \div 4096), 128 + ((c \div 64) % 64), 128 + (c % 64) >>
    ELSE
        << 240 + (c \div 262144), 128 + ((c \div 4096) % 64),
           128 + ((c \div 64) % 64), 128 + (c % 64) >>

\* The encodings of the characters from..to of str, in order (the range is
\* split in halves to keep the evaluation shallow).
RECURSIVE encodeRange(_, _, _)
encodeRange(str, from, to) ==
    IF from > to THEN << >>
    ELSE IF from = to THEN Utf8(str[from])
    ELSE encodeRange(str, from, (from + to) \div 2)
         \o encodeRange(str, (from + to) \div 2 + 1, to)

\* str.encode().
encode(str) == encodeRange(str, 1, Len(str))

\* Lines 13-19: the while loop, from position pos with the blocks so far.
RECURSIVE chopLoop(_, _, _)
chopLoop(data, pos, result) ==
    LET strLen == Len(data) IN
    IF pos < strLen
    THEN LET end_pos == Min(strLen, pos + BlockSize) IN
         chopLoop(data, end_pos, Append(result, SubSeq(data, pos + 1, end_pos)))
    ELSE result

\* Lines 9-19 with a first block of 63 bytes when there are several.
chopMessage_short_blocks(str) ==
    LET data == toU32(Len(str)) \o encode(str) IN
    IF Len(data) > BlockSize
    THEN << SubSeq(data, 1, BlockSize - 1) >>
         \o chopLoop(data, BlockSize - 1, << >>)
    ELSE chopLoop(data, 0, << >>)

\* Lines 9-19.
chopMessage(str) ==
    LET data == toU32(Len(str)) \o encode(str) IN
    chopLoop(data, 0, << >>)

\* Line 66 with `response.decode('ascii', 'replace')`: bytes above 127
\* become U+FFFD.
response_str_of_ascii_replace(resp) ==
    [k \in 1..Len(resp) |-> IF resp[k] < 128 THEN resp[k] ELSE 65533]

\* Line 66: one character per byte, chr(x) being the code point x.
chr(x) == x
response_str_of(resp) == [k \in 1..Len(resp) |-> chr(resp[k])]

\* ------------------------------------------------------------------ state
VARIABLES
    message,    \* the str of lines 52-54
    pc,         \* "start", "write", "read", "done", "raised"
    blocks,     \* result of chopMessage (line 58)
    i,          \* loop variable of line 59
    response,   \* last value of inep.read(64)
    error,      \* the exception that ended the script, if any
    stdout,     \* what the script printed
    trace,      \* the calls made on outep and inep, in order
    x,          \* argument of a call of toU32 on its own, as << lo, hi >>
    u32         \* what that call returned

vars == << message, pc, blocks, i, response, error, stdout, trace, x, u32 >>

NoError == [type |-> "none", text |-> "", detail |-> << >>]
\* What the endpoints raise; the script adds nothing to it.
USBError == [type |-> "USBError", text |-> "", detail |-> << >>]
\* Line 70.
HandshakeError ==
    [type |-> "Exception",
     text |-> "Device expected more data that was announced in the hashshake!",
     detail |-> << >>]
\* Lines 72 and 78.
DeviceError(str) ==
    [type |-> "Exception", text |-> "Device reported an error: ", detail |-> str]

Printed(text, data) == [text |-> text, data |-> data]

WriteCall(idx, data, ok) ==
    [op |-> "write", index |-> idx, data |-> data, size |-> Len(data), ok |-> ok]
ReadCall(idx, data, ok) ==
    [op |-> "read", index |-> idx, data |-> data, size |-> ReadSize, ok |-> ok]

\* The messages the model draws: n characters, all c but the last, which is t.
Msg(n, c, t) == [k \in 1..n |-> IF k = n THEN t ELSE c]

\* Lines 52-56: the message is set and printed.
Init ==
    /\ \E n \in 0..MaxMsgLen, c \in Alphabet, t \in Alphabet :
          message = Msg(n, c, t)
    /\ pc = "start"
    /\ blocks = << >>
    /\ i = 0
    /\ response = << >>
    /\ error = NoError
    /\ stdout = << Printed("", message) >>
    /\ trace = << >>
    /\ x = << 0, 0 >>
    /\ u32 = << >>

\* Lines 58-59: the message is chopped and the loop is entered.
Chop ==
    /\ pc = "start"
    /\ blocks' = chopMessage(message)
    /\ i' = 0
    /\ pc' = IF Len(blocks') > 0 THEN "write" ELSE "done"
    /\ UNCHANGED << x, u32, message, response, error, stdout, trace >>

\* Lines 60-63 with `blocks[0]` for `blocks[i]`.
WriteOk_resends_first ==
    /\ pc = "write"
    /\ LET block == blocks[1] IN
       /\ trace' = Append(trace, WriteCall(i, block, TRUE))
       /\ stdout' = stdout \o << Printed("sending: ", block), Printed(" sent.", << >>) >>
    /\ pc' = "read"
    /\ UNCHANGED << x, u32, message, blocks, i, response, error >>

\* Lines 60-63 followed by a read for the last block only.
WriteOk_pipelined ==
    /\ pc = "write"
    /\ LET block == blocks[i + 1] IN
       /\ trace' = Append(trace, WriteCall(i, block, TRUE))
       /\ stdout' = stdout \o << Printed("sending: ", block), Printed(" sent.", << >>) >>
    /\ IF (i + 1) < Len(blocks)
       THEN i' = i + 1 /\ pc' = "write"
       ELSE i' = i /\ pc' = "read"
    /\ UNCHANGED << x, u32, message, blocks, response, error >>

\* Lines 60-63, outep.write returns.
WriteOk ==
    /\ pc = "write"
    /\ LET block == blocks[i + 1] IN
       /\ trace' = Append(trace, WriteCall(i, block, TRUE))
       /\ stdout' = stdout \o << Printed("sending: ", block), Printed(" sent.", << >>) >>
    /\ pc' = "read"
    /\ UNCHANGED << x, u32, message, blocks, i, response, error >>

\* Lines 60-62 with the exception of outep.write caught and dropped.
WriteFails_swallowed ==
    /\ pc = "write"
    /\ LET block == blocks[i + 1] IN
       /\ trace' = Append(trace, WriteCall(i, block, FALSE))
       /\ stdout' = Append(stdout, Printed("sending: ", block))
    /\ pc' = "read"
    /\ UNCHANGED << x, u32, message, blocks, i, response, error >>

\* Lines 60-62, outep.write raises.
WriteFails ==
    /\ pc = "write"
    /\ LET block == blocks[i + 1] IN
       /\ trace' = Append(trace, WriteCall(i, block, FALSE))
       /\ stdout' = Append(stdout, Printed("sending: ", block))
    /\ error' = USBError
    /\ pc' = "raised"
    /\ UNCHANGED << x, u32, message, blocks, i, response >>

\* Line 65 with the block sent again after the first failed read.
ReadFails_retry_once ==
    /\ pc = "read"
    /\ trace' = Append(trace, ReadCall(i, << >>, FALSE))
    /\ IF \E k \in 1..Len(trace) : trace[k].op = "read" /\ ~ trace[k].ok
       THEN error' = USBError /\ pc' = "raised"
       ELSE error' = error /\ pc' = "write"
    /\ UNCHANGED << x, u32, message, blocks, i, response, stdout >>

\* Line 65 with the exception of inep.read caught and the response taken
\* as empty: lines 67-78 then see zero bytes.
ReadFails_as_empty ==
    /\ pc = "read"
    /\ response' = << >>
    /\ trace' = Append(trace, ReadCall(i, << >>, FALSE))
    /\ IF (i + 1) = Len(blocks)
       THEN error' = HandshakeError /\ pc' = "raised" /\ i' = i
       ELSE error' = error /\ pc' = "write" /\ i' = i + 1
    /\ UNCHANGED << x, u32, message, blocks, stdout >>

\* Line 65, inep.read raises.
ReadFails ==
    /\ pc = "read"
    /\ trace' = Append(trace, ReadCall(i, << >>, FALSE))
    /\ error' = USBError
    /\ pc' = "raised"
    /\ UNCHANGED << x, u32, message, blocks, i, response, stdout >>

\* Lines 67-78 with a hash accepted as the answer to any block.
Classify_accepts_hash_midstream(resp) ==
    LET response_str == response_str_of(resp) IN
    IF (i + 1) = Len(blocks)
    THEN IF Len(resp) = 0
         THEN /\ error' = HandshakeError
              /\ pc' = "raised"
              /\ UNCHANGED << i, stdout >>
         ELSE IF Len(resp) # HashLen
         THEN /\ error' = DeviceError(response_str)
              /\ pc' = "raised"
              /\ UNCHANGED << i, stdout >>
         ELSE /\ stdout' = Append(stdout, Printed("hash: ", response_str))
              /\ pc' = "done"
              /\ UNCHANGED << i, error >>
    ELSE IF Len(resp) \notin {0, HashLen}
         THEN /\ error' = DeviceError(response_str)
              /\ pc' = "raised"
              /\ UNCHANGED << i, stdout >>
         ELSE /\ i' = i + 1
              /\ pc' = "write"
              /\ UNCHANGED << error, stdout >>

\* Lines 67-78 with the test of line 71 made before the one of line 69.
Classify_hash_check_first(resp) ==
    LET response_str == response_str_of(resp) IN
    IF (i + 1) = Len(blocks)
    THEN IF Len(resp) # HashLen
         THEN /\ error' = DeviceError(response_str)
              /\ pc' = "raised"
              /\ UNCHANGED << i, stdout >>
         ELSE /\ stdout' = Append(stdout, Printed("hash: ", response_str))
              /\ pc' = "done"
              /\ UNCHANGED << i, error >>
    ELSE IF Len(resp) # 0
         THEN /\ error' = DeviceError(response_str)
              /\ pc' = "raised"
              /\ UNCHANGED << i, stdout >>
         ELSE /\ i' = i + 1
              /\ pc' = "write"
              /\ UNCHANGED << error, stdout >>

\* Lines 67-78 with `<` for `!=` in line 71.
Classify_short_is_error(resp) ==
    LET response_str == response_str_of(resp) IN
    IF (i + 1) = Len(blocks)
    THEN IF Len(resp) = 0
         THEN /\ error' = HandshakeError
              /\ pc' = "raised"
              /\ UNCHANGED << i, stdout >>
         ELSE IF Len(resp) < HashLen
         THEN /\ error' = DeviceError(response_str)
              /\ pc' = "raised"
              /\ UNCHANGED << i, stdout >>
         ELSE /\ stdout' = Append(stdout, Printed("hash: ", response_str))
              /\ pc' = "done"
              /\ UNCHANGED << i, error >>
    ELSE IF Len(resp) # 0
         THEN /\ error' = DeviceError(response_str)
              /\ pc' = "raised"
              /\ UNCHANGED << i, stdout >>
         ELSE /\ i' = i + 1
              /\ pc' = "write"
              /\ UNCHANGED << error, stdout >>

\* Lines 67-78 with the response left out of the exceptions.
Classify_drops_response(resp) ==
    LET response_str == response_str_of(resp) IN
    IF (i + 1) = Len(blocks)
    THEN IF Len(resp) = 0
         THEN /\ error' = HandshakeError
              /\ pc' = "raised"
              /\ UNCHANGED << i, stdout >>
         ELSE IF Len(resp) # HashLen
         THEN /\ error' = DeviceError(<< >>)
              /\ pc' = "raised"
              /\ UNCHANGED << i, stdout >>
         ELSE /\ stdout' = Append(stdout, Printed("hash: ", response_str))
              /\ pc' = "done"
              /\ UNCHANGED << i, error >>
    ELSE IF Len(resp) # 0
         THEN /\ error' = DeviceError(<< >>)
              /\ pc' = "raised"
              /\ UNCHANGED << i, stdout >>
         ELSE /\ i' = i + 1
              /\ pc' = "write"
              /\ UNCHANGED << error, stdout >>

\* Lines 67-78 with 32 bytes taken as the hash whatever the block.
Classify_hash_anywhere(resp) ==
    LET response_str == response_str_of(resp) IN
    IF (i + 1) = Len(blocks)
    THEN IF Len(resp) = 0
         THEN /\ error' = HandshakeError
              /\ pc' = "raised"
              /\ UNCHANGED << i, stdout >>
         ELSE IF Len(resp) # HashLen
         THEN /\ error' = DeviceError(response_str)
              /\ pc' = "raised"
              /\ UNCHANGED << i, stdout >>
         ELSE /\ stdout' = Append(stdout, Printed("hash: ", response_str))
              /\ pc' = "done"
              /\ UNCHANGED << i, error >>
    ELSE IF Len(resp) = HashLen
         THEN /\ stdout' = Append(stdout, Printed("hash: ", response_str))
              /\ pc' = "done"
              /\ UNCHANGED << i, error >>
         ELSE IF Len(resp) # 0
         THEN /\ error' = DeviceError(response_str)
              /\ pc' = "raised"
              /\ UNCHANGED << i, stdout >>
         ELSE /\ i' = i + 1
              /\ pc' = "write"
              /\ UNCHANGED << error, stdout >>

\* Lines 67-78 with `i > 0 and (i + 1) == len(blocks)` in line 67: the
\* loop ends without a hash when the only block is answered with nothing.
Classify_first_block_is_midstream(resp) ==
    LET response_str == response_str_of(resp) IN
    IF i > 0 /\ (i + 1) = Len(blocks)
    THEN IF Len(resp) = 0
         THEN /\ error' = HandshakeError
              /\ pc' = "raised"
              /\ UNCHANGED << i, stdout >>
         ELSE IF Len(resp) # HashLen
         THEN /\ error' = DeviceError(response_str)
              /\ pc' = "raised"
              /\ UNCHANGED << i, stdout >>
         ELSE /\ stdout' = Append(stdout, Printed("hash: ", response_str))
              /\ pc' = "done"
              /\ UNCHANGED << i, error >>
    ELSE IF Len(resp) # 0
         THEN /\ error' = DeviceError(response_str)
              /\ pc' = "raised"
              /\ UNCHANGED << i, stdout >>
         ELSE IF (i + 1) < Len(blocks)
         THEN /\ i' = i + 1
              /\ pc' = "write"
              /\ UNCHANGED << error, stdout >>
         ELSE /\ pc' = "done"
              /\ UNCHANGED << i, error, stdout >>

\* Lines 67-78: what the script does with a response.
Classify(resp) ==
    LET response_str == response_str_of(resp) IN
    IF (i + 1) = Len(blocks)
    THEN IF Len(resp) = 0
         THEN /\ error' = HandshakeError
              /\ pc' = "raised"
              /\ UNCHANGED << i, stdout >>
         ELSE IF Len(resp) # HashLen
         THEN /\ error' = DeviceError(response_str)
              /\ pc' = "raised"
              /\ UNCHANGED << i, stdout >>
         ELSE /\ stdout' = Append(stdout, Printed("hash: ", response_str))
              /\ pc' = "done"
              /\ UNCHANGED << i, error >>
    ELSE IF Len(resp) # 0
         THEN /\ error' = DeviceError(response_str)
              /\ pc' = "raised"
              /\ UNCHANGED << i, stdout >>
         ELSE /\ i' = i + 1
              /\ pc' = "write"
              /\ UNCHANGED << error, stdout >>

\* Lines 65-78, inep.read returns resp.
ReadResponse(resp) ==
    /\ pc = "read"
    /\ response' = resp
    /\ trace' = Append(trace, ReadCall(i, resp, TRUE))
    /\ Classify(resp)
    /\ UNCHANGED << x, u32, message, blocks >>

\* What inep.read(64) can return: 0..64 bytes.
Responses == { [k \in 1..n |-> b] : n \in 0..ReadSize, b \in RespBytes }

Read == \E resp \in Responses : ReadResponse(resp)

Next ==
    \/ Chop
    \/ WriteOk
    \/ WriteFails
    \/ ReadFails
    \/ Read

Spec == Init /\ [][Next]_vars

\* With every call on an endpoint returning or raising, the script goes on
\* until it ends.
FairSpec == Spec /\ WF_vars(Next)

\* ------------------------------------------------- toU32 called on its own
Limb == 16777216
\* Values of the low 24 bits of x: around every byte boundary.
LoSamples == {0, 1, 255, 256, 257, 65535, 65536, 65537, 16777215, 11259375}

\* A call toU32(x) is about to be made.
U32Init ==
    /\ \E lo \in LoSamples, hi \in 0..MaxHi : x = << lo, hi >>
    /\ u32 = << >>
    /\ pc = "toU32"
    /\ message = << >>
    /\ blocks = << >>
    /\ i = 0
    /\ response = << >>
    /\ error = NoError
    /\ stdout = << >>
    /\ trace = << >>

\* Lines 6-7: the call returns.
CallToU32 ==
    /\ pc = "toU32"
    /\ u32' = toU32_limbs(x[1], x[2])
    /\ pc' = "returned"
    /\ UNCHANGED << x, message, blocks, i, response, error, stdout, trace >>

U32Next == CallToU32

U32Spec == U32Init /\ [][U32Next]_vars

\* ------------------------------------------------------- derived notions
\* Number of blocks of the transfer.
NumBlocks == Len(blocks)
\* Positions of the trace holding calls of outep.write and of inep.read.
WritePos == { k \in 1..Len(trace) : trace[k].op = "write" }
ReadPos == { k \in 1..Len(trace) : trace[k].op = "read" }
\* Reads that returned a response.
ReturnedReadPos == { k \in ReadPos : trace[k].ok }
Terminated == pc \in {"done", "raised"}
\* The hash lines printed so far.
HashLines == { k \in 1..Len(stdout) : stdout[k].text = "hash: " }
\* The bytes all blocks together put on the wire.
RECURSIVE Concat(_)
Concat(seqs) == IF seqs = << >> THEN << >> ELSE Head(seqs) \o Concat(Tail(seqs))
\* Little-endian value of four bytes.
FromLE(b) == b[1] + 256 * b[2] + 65536 * b[3] + 16777216 * b[4]
CeilDiv(a, b) == (a + b - 1) \div b
\* Length of the payload in bytes, as it is transmitted.
PayloadBytes == encode(message)

\* ------------------------------------------------------------------ C1
\* The transport answered every block so far as the device does when all
\* goes well: nothing raised, every block but the last was answered with
\* zero bytes and the last one with 32 bytes.
HappyTransport ==
    \A k \in 1..Len(trace) :
        /\ trace[k].ok
        /\ trace[k].op = "read" =>
              Len(trace[k].data) =
                  (IF trace[k].index = NumBlocks - 1 THEN HashLen ELSE 0)

\* C1: with such a transport the calls made are write(0), read, write(1),
\* read, ... in this order, at most N of each; after the N-th read the
\* script has ended without an exception, having made exactly N writes and
\* N reads and having printed the 32 bytes of the last response as the hash.
C1_HappyPathCompletes ==
    (pc # "start" /\ HappyTransport) =>
        /\ Len(trace) <= 2 * NumBlocks
        /\ \A k \in 1..Len(trace) :
              /\ trace[k].index = (k - 1) \div 2
              /\ trace[k].op = (IF k % 2 = 1 THEN "write" ELSE "read")
              /\ trace[k].op = "write" => trace[k].data = blocks[(k + 1) \div 2]
        /\ error = NoError
        /\ pc \in {"write", "read", "done"}
        /\ (Len(trace) = 2 * NumBlocks) <=> (pc = "done")
        /\ pc = "done" =>
              /\ Cardinality(WritePos) = NumBlocks
              /\ Cardinality(ReadPos) = NumBlocks
              /\ Len(response) = HashLen
              /\ response = trace[2 * NumBlocks].data
              /\ Cardinality(HashLines) = 1
              /\ stdout[Len(stdout)] = Printed("hash: ", response)

\* A transfer of three blocks or more has completed.
C1_Witness ==
    /\ pc = "done"
    /\ NumBlocks >= 3
    /\ HappyTransport

\* ------------------------------------------------------------------ C2
\* C2: chopMessage returns ceil((4+L)/64) blocks of at most 64 bytes each
\* whose concatenation is the little-endian encoding of L followed by the
\* payload bytes, L being the length of the payload in bytes.
C2_FramingRoundTrip ==
    pc # "start" =>
        LET L == Len(PayloadBytes) IN
        /\ NumBlocks = CeilDiv(4 + L, BlockSize)
        /\ \A k \in 1..NumBlocks : Len(blocks[k]) <= BlockSize
        /\ Concat(blocks) = toU32(L) \o PayloadBytes
        /\ Len(Concat(blocks)) = 4 + L

\* ------------------------------------------------------------------ C3
\* The read at trace position k answered a block that is not the last one
\* with one byte or more.
NonFinalNonEmpty(k) ==
    /\ k \in ReturnedReadPos
    /\ trace[k].index < NumBlocks - 1
    /\ Len(trace[k].data) # 0

\* C3: after a non-empty response to block i, i not the last block, the
\* script has ended with "Device reported an error: " followed by the
\* response, nothing was called on the transport afterwards, and the
\* transport has seen exactly i+1 writes and i+1 reads.
C3_NonFinalResponseAborts ==
    \A k \in 1..Len(trace) :
        NonFinalNonEmpty(k) =>
            /\ pc = "raised"
            /\ error = DeviceError(trace[k].data)
            /\ k = Len(trace)
            /\ \A w \in WritePos : trace[w].index <= trace[k].index
            /\ Cardinality(WritePos) = trace[k].index + 1
            /\ Cardinality(ReadPos) = trace[k].index + 1
            /\ HashLines = {}

\* The second block of several was answered with 32 bytes.
C3_Witness ==
    /\ pc = "raised"
    /\ \E k \in 1..Len(trace) :
          /\ NonFinalNonEmpty(k)
          /\ trace[k].index >= 1
          /\ Len(trace[k].data) = HashLen

\* ------------------------------------------------------------------ C4
\* The read at trace position k answered the last block.
FinalRead(k) ==
    /\ k \in ReturnedReadPos
    /\ trace[k].index = NumBlocks - 1

\* C4: after an empty response to the last block the script has ended with
\* the "expected more data" exception: not with the device error, and
\* without printing a hash.
C4_EmptyFinalResponse ==
    \A k \in 1..Len(trace) :
        (FinalRead(k) /\ Len(trace[k].data) = 0) =>
            /\ NumBlocks >= 1
            /\ pc = "raised"
            /\ error = HandshakeError
            /\ error # DeviceError(<< >>)
            /\ HashLines = {}

\* The last of several blocks was answered with zero bytes.
C4_Witness ==
    /\ NumBlocks >= 2
    /\ Len(trace) = 2 * NumBlocks
    /\ FinalRead(Len(trace))
    /\ Len(trace[Len(trace)].data) = 0

\* ------------------------------------------------------------------ C5
\* C5: after a response to the last block of a length other than 0 and 32
\* the script has ended with "Device reported an error: " followed by the
\* response, and it has printed no hash.
C5_BadFinalResponse ==
    \A k \in 1..Len(trace) :
        (FinalRead(k) /\ Len(trace[k].data) \notin {0, HashLen}) =>
            /\ pc = "raised"
            /\ error = DeviceError(trace[k].data)
            /\ HashLines = {}

\* The last block was answered with more than 32 bytes.
C5_Witness ==
    /\ Len(trace) = 2 * NumBlocks
    /\ FinalRead(Len(trace))
    /\ Len(trace[Len(trace)].data) > HashLen

\* ------------------------------------------------------------------ C6
\* C6: the length the first four bytes of the stream announce is the
\* number of payload bytes that follow them.
C6_HeaderAnnouncesPayloadLength ==
    pc # "start" =>
        LET stream == Concat(blocks) IN
        /\ Len(stream) >= 4
        /\ FromLE(SubSeq(stream, 1, 4)) = Len(stream) - 4
        /\ SubSeq(stream, 5, Len(stream)) = PayloadBytes

\* ------------------------------------------------------------------ C7
\* The call at trace position k is a write that raised.
WriteFailedAt(k) ==
    /\ k \in WritePos
    /\ ~ trace[k].ok

\* An outcome naming the stage and the index of the block.
TransferFailed(stage, index) ==
    [type |-> "TransferFailed", text |-> stage, detail |-> << index >>]

\* No read was made for the block of the call at position k, and no later
\* block was written.
NothingAfterFailedWrite(k) ==
    /\ k = Len(trace)
    /\ \A r \in ReadPos : trace[r].index < trace[k].index
    /\ \A w \in WritePos : trace[w].index <= trace[k].index

C8_BlockLengths ==
    pc # "start" =>
        LET L == Len(PayloadBytes)
            lens == [k \in 1..NumBlocks |-> Len(blocks[k])]
        IN
        /\ NumBlocks >= 1
        /\ \A k \in 1..(NumBlocks - 1) : lens[k] = BlockSize
        /\ lens[NumBlocks] =
              (IF (4 + L) % BlockSize # 0 THEN (4 + L) % BlockSize ELSE BlockSize)
        /\ \A k \in 1..NumBlocks : lens[k] >= 1
        /\ L = 0 => lens = << 4 >>
        /\ L = 60 => lens = << 64 >>
        /\ L = 61 => lens = << 64, 1 >>

\* A payload of 61 bytes was chopped.
C8_Witness ==
    /\ pc # "start"
    /\ Len(PayloadBytes) = 61
    /\ NumBlocks = 2

\* ------------------------------------------------------------------ C9
\* C9: at any time the writes made exceed the reads made, and the reads
\* that returned, by 0 or 1, and every block after the first was written
\* right after the read for the block before it returned zero bytes.
C9_OneBlockOutstanding ==
    /\ Cardinality(WritePos) - Cardinality(ReadPos) \in {0, 1}
    /\ Cardinality(WritePos) - Cardinality(ReturnedReadPos) \in {0, 1}
    /\ \A k \in WritePos :
          trace[k].index > 0 =>
              /\ k > 1
              /\ trace[k - 1] = ReadCall(trace[k].index - 1, << >>, TRUE)

\* The third block is written and not yet answered.
C9_Witness ==
    /\ pc = "read"
    /\ i = 2
    /\ Cardinality(WritePos) = 3
    /\ Cardinality(ReadPos) = 2

\* ----------------------------------------------------------------- C10
\* The indices of the blocks written grow strictly along the trace.
WriteIndicesIncrease ==
    \A a, b \in WritePos : a < b => trace[a].index < trace[b].index

\* C10: every block index is written at most once, in strictly increasing
\* order, and once the script has ended (normally or by an exception) no
\* call is made on the transport any more.
C10_NoRetries ==
    /\ [] WriteIndicesIncrease
    /\ [][Terminated => trace' = trace]_vars

\* The transfer failed after the second block, the first having been
\* written once.
C10_Witness ==
    /\ pc = "raised"
    /\ Cardinality(WritePos) = 2
    /\ NumBlocks >= 3

\* ----------------------------------------------------------------- C11
\* The steps of the state machine as the claim draws it, with "start" for
\* Idle, "write" for Sending(i), "read" for AwaitingResponse(i), "done" for
\* Completed and "raised" for Failed.
StepAsStated ==
    \/ pc = "start" /\ pc' = "write" /\ i' = 0
    \/ pc = "write" /\ pc' = "read" /\ i' = i
    \/ pc = "read" /\ pc' = "write" /\ i' = i + 1
    \/ pc = "read" /\ pc' \in {"done", "raised"}

\* The same with the step from Sending(i) to Failed.
StepAsAmended ==
    \/ StepAsStated
    \/ pc = "write" /\ pc' = "raised" /\ i' = i

\* At most N writes and N reads have been made.
AtMostNCalls ==
    pc # "start" =>
        /\ Cardinality(WritePos) <= NumBlocks
        /\ Cardinality(ReadPos) <= NumBlocks

\* C11 as stated: every step is Idle -> Sending(0), Sending(i) ->
\* AwaitingResponse(i) or AwaitingResponse(i) -> Sending(i+1), Completed or
\* Failed; the transfer ends in Completed or Failed, where it stays, after
\* at most N writes and N reads.
C11_StateMachineAsStated ==
    /\ [][StepAsStated]_vars
    /\ [][Terminated => pc' = pc]_vars
    /\ [] AtMostNCalls
    /\ <> Terminated

\* C11 as amended: the same, with the step Sending(i) -> Failed that a
\* failed write takes.
C11_StateMachine ==
    /\ [][StepAsAmended]_vars
    /\ [][Terminated => pc' = pc]_vars
    /\ [] AtMostNCalls
    /\ <> Terminated

\* A transfer of five blocks has ended after five writes and five reads.
C11_Witness ==
    /\ Terminated
    /\ NumBlocks = 5
    /\ Cardinality(WritePos) = 5
    /\ Cardinality(ReadPos) = 5

\* ----------------------------------------------------------------- C12
\* The last call made on the transport.
LastCall == trace[Len(trace)]
\* The stage the script failed at.
FailedStage == IF LastCall.op = "write" THEN "Send" ELSE "Receive"
\* The response the failure followed, if one was received.
FailedPayload == IF LastCall.op = "read" /\ LastCall.ok THEN LastCall.data ELSE << >>
\* The "sending: " lines printed so far.
SendingLines == { k \in 1..Len(stdout) : stdout[k].text = "sending: " }

ReadFailedAt(k) ==
    /\ k \in ReadPos
    /\ ~ trace[k].ok

\* C13: after a failed read for block i, last block or not, the script has
\* ended with the exception of the endpoint: no response was stored or
\* classified, no hash was printed, and nothing more was called on the
\* transport.
C13_ReadFailureAborts ==
    \A k \in 1..Len(trace) :
        ReadFailedAt(k) =>
            /\ pc = "raised"
            /\ error = USBError
            /\ k = Len(trace)
            /\ i = trace[k].index
            /\ response = << >>
            /\ HashLines = {}
            /\ \A w \in WritePos : trace[w].index <= trace[k].index

\* The read for the second of three blocks or more raised.
C13_Witness ==
    /\ Len(trace) = 4
    /\ ReadFailedAt(4)
    /\ NumBlocks >= 3

\* ----------------------------------------------------------------- C14
\* C14: the text that follows "Device reported an error: " has one
\* character per byte of the response, the k-th of the code point that is
\* the k-th byte, whether the block was the last one or not.
C14_MessageIsResponseBytewise ==
    (pc = "raised" /\ error.text = "Device reported an error: ") =>
        /\ LastCall.op = "read"
        /\ LastCall.ok
        /\ Len(error.detail) = Len(LastCall.data)
        /\ \A k \in 1..Len(LastCall.data) : error.detail[k] = LastCall.data[k]

\* A block before the last was answered with 64 bytes of value 233.
C14_Witness ==
    /\ pc = "raised"
    /\ error.text = "Device reported an error: "
    /\ i < NumBlocks - 1
    /\ Len(error.detail) = 64
    /\ error.detail[64] = 233

\* ----------------------------------------------------------------- C15
\* C15: when the script has ended normally, the trace is write(0), read,
\* ..., write(N-1), read with every block written once, all reads but the
\* last returned zero bytes, and the one hash printed is the last
\* response; a hash is printed in no other case, in particular not after
\* a non-empty response to a block that is not the last.
C15_Completed ==
    /\ pc = "done" =>
          /\ Len(trace) = 2 * NumBlocks
          /\ \A j \in 0..(NumBlocks - 1) :
                /\ trace[2 * j + 1] = WriteCall(j, blocks[j + 1], TRUE)
                /\ trace[2 * j + 2].op = "read"
                /\ trace[2 * j + 2].ok
                /\ trace[2 * j + 2].index = j
                /\ j < NumBlocks - 1 => trace[2 * j + 2].data = << >>
          /\ HashLines = {Len(stdout)}
          /\ Len(stdout[Len(stdout)].data) = HashLen
          /\ stdout[Len(stdout)].data = trace[2 * NumBlocks].data
    /\ HashLines # {} => pc = "done"
    /\ \A k \in 1..Len(trace) :
          NonFinalNonEmpty(k) => (pc # "done" /\ HashLines = {})

\* A transfer of two blocks has completed.
C15_Witness ==
    /\ pc = "done"
    /\ NumBlocks = 2
    /\ HashLines # {}

\* ----------------------------------------------------------------- C16
\* C16: there is one block exactly when the payload has at most 60 bytes;
\* its response is then treated as that of a last block: zero bytes end
\* the script with the "expected more data" exception instead of letting
\* the loop go on or end, and 32 bytes complete the transfer after one
\* write and one read.
C16_SingleBlockIsFinal ==
    pc # "start" =>
        /\ (NumBlocks = 1) <=> (Len(PayloadBytes) <= 60)
        /\ (NumBlocks = 1 /\ Len(trace) = 2 /\ trace[2].ok) =>
              /\ Len(trace[2].data) = 0 =>
                    (pc = "raised" /\ error = HandshakeError /\ HashLines = {})
              /\ Len(trace[2].data) = HashLen =>
                    /\ pc = "done"
                    /\ Cardinality(WritePos) = 1
                    /\ Cardinality(ReadPos) = 1
                    /\ stdout[Len(stdout)] = Printed("hash: ", trace[2].data)

\* The only block was answered with zero bytes.
C16_Witness ==
    /\ NumBlocks = 1
    /\ Len(trace) = 2
    /\ trace[2].ok
    /\ trace[2].data = << >>

\* ----------------------------------------------------------------- C17
\* A response has just been classified: the read is the last call made.
JustClassified ==
    /\ Len(trace) > 0
    /\ LastCall.op = "read"
    /\ LastCall.ok

\* The four outcomes of a classification.
OutcomeAck ==
    pc = "write" /\ i = LastCall.index + 1 /\ error = NoError /\ HashLines = {}
OutcomeCompleted ==
    pc = "done" /\ error = NoError /\ HashLines # {}
OutcomeIncompleteHandshake ==
    pc = "raised" /\ error = HandshakeError /\ HashLines = {}
OutcomeDeviceError ==
    pc = "raised" /\ error = DeviceError(LastCall.data) /\ HashLines = {}

\* C17: whatever the position of the block and the length of the response,
\* exactly one outcome is produced; the loop goes on only after zero bytes
\* for a block that is not the last, and the transfer completes only after
\* 32 bytes for the last block.
C17_ClassificationTotal ==
    JustClassified =>
        LET final == (LastCall.index = NumBlocks - 1)
            len == Len(LastCall.data)
            holds == << OutcomeAck, OutcomeCompleted,
                        OutcomeIncompleteHandshake, OutcomeDeviceError >>
        IN
        /\ len \in 0..ReadSize
        /\ Cardinality({ o \in 1..4 : holds[o] }) = 1
        /\ OutcomeAck <=> (~ final /\ len = 0)
        /\ OutcomeCompleted <=> (final /\ len = HashLen)
        /\ OutcomeIncompleteHandshake <=> (final /\ len = 0)

\* The first of several blocks was acknowledged.
C17_Witness ==
    /\ JustClassified
    /\ OutcomeAck
    /\ Len(trace) = 2

\* ----------------------------------------------------------------- C18
\* The value of bytes b, least significant first, as << lo, hi >>.
LimbsFromLE(b) == << b[1] + 256 * b[2] + 65536 * b[3], b[4] >>

\* C18: toU32(x) returns, without raising, four bytes, the k-th being
\* floor(x / 256^k) mod 256; read least significant first they give x when
\* x < 2^32 and x mod 2^32 otherwise.
C18_ToU32 ==
    pc = "returned" =>
        LET lo == x[1]
            hi == x[2]
        IN
        /\ error = NoError
        /\ Len(u32) = 4
        /\ \A k \in 1..4 : u32[k] \in 0..255
        /\ u32[1] = lo % 256
        /\ u32[2] = (lo \div 256) % 256
        /\ u32[3] = (lo \div 65536) % 256
        /\ u32[4] = hi % 256
        /\ LimbsFromLE(u32) = << lo, hi % 256 >>
        /\ hi < 256 => LimbsFromLE(u32) = x
        /\ hi < 128 => u32 = toU32(hi * Limb + lo)

\* toU32 has returned for an x of 2^32 or more.
C18_Witness ==
    /\ pc = "returned"
    /\ x[2] >= 256
    /\ x[1] = 11259375

====
